---- MODULE Spec2Model ----
(***************************************************************************)
(* Model of src/she/she_alleg4.cpp: the Allegro 4 backend of the SHE       *)
(* library (Alleg4Surface, Alleg4EventQueue, Alleg4Display, the window     *)
(* procedure that injects file-drop events, and the two asynchronous       *)
(* callbacks that set the sticky display flags).                           *)
(*                                                                         *)
(* Spec       : every operation is one atomic step (the single-threaded    *)
(*              poll-draw-flip loop plus notifications between calls).     *)
(* SpecFlags  : flip()'s test-and-clear of display_flags and the two       *)
(*              callbacks, each split into its loads and stores.           *)
(* SpecVector : getEvent and queueEvent split into the loads and stores    *)
(*              they perform on the std::vector.                           *)
(***************************************************************************)
EXTENDS Integers, Sequences, FiniteSets, TLC

\* ------------------------------------------------------------------ bounds
MaxScale == 3
MaxPush == 3
MaxBitmaps == 2
MaxSystems == 3
MaxSurfaces == 2

\* --------------------------------------------------------- program constants
DISPLAY_FLAG_FULL_REFRESH == 1
DISPLAY_FLAG_WINDOW_RESIZE == 2

NULL == 0

\* Window sizes the backend can report (width, height).
Sizes == {<<7, 5>>, <<4, 6>>, <<9, 8>>}

\* The native file-drop notifications: what DragQueryFile reports for each
\* index of the HDROP, a path in TCHAR code units or nothing (length 0).
\* The paths are "a" and "e" with an acute accent.
NativeDrops == << <<(<<97>>), (<<233>>)>>, <<(<<>>), (<<233>>)>> >>

\* base::to_utf8: each code unit becomes one, two or three bytes.
RECURSIVE to_utf8(_)
to_utf8(str) ==
  IF str = <<>> THEN <<>>
  ELSE LET u == Head(str)
           bytes == IF u < 128 THEN <<u>>
                    ELSE IF u < 2048
                         THEN <<192 + (u \div 64), 128 + (u % 64)>>
                         ELSE <<224 + (u \div 4096),
                                128 + ((u \div 64) % 64), 128 + (u % 64)>>
       IN bytes \o to_utf8(Tail(str))

\* wndproc collecting the files the other way round.
wndprocFiles_reversed(hdrop) ==
  LET F[i \in 0..Len(hdrop)] ==
        IF i = 0 THEN <<>>
        ELSE IF Len(hdrop[i]) > 0
             THEN <<to_utf8(hdrop[i])>> \o F[i - 1]
             ELSE F[i - 1]
  IN F[Len(hdrop)]

\* wndproc, lines 179-189: for index 0..count-1, a path of length > 0 is
\* converted and pushed at the back of files.
wndprocFiles(hdrop) ==
  LET F[i \in 0..Len(hdrop)] ==
        IF i = 0 THEN <<>>
        ELSE IF Len(hdrop[i]) > 0
             THEN Append(F[i - 1], to_utf8(hdrop[i]))
             ELSE F[i - 1]
  IN F[Len(hdrop)]

\* Payloads of the DropFiles events the window procedure builds.
FileLists == {wndprocFiles(NativeDrops[k]) : k \in 1..Len(NativeDrops)}

BitmapIds == 1..MaxBitmaps
SystemIds == 1..MaxSystems
SurfaceIds == 1..MaxSurfaces

VARIABLES
  \* file-scope statics, lines 37-39
  display_flags, original_width, original_height,
  \* the backend (Allegro): graphics mode, driver-reported size, hooks
  gfx_mode, SCREEN_W, SCREEN_H, switch_in_cb, resize_cb,
  \* the native window: its real client size, whether it is maximized, and
  \* the size it had before it was maximized (the size a restore returns to)
  win_w, win_h, win_maximized, win_normal_w, win_normal_h,
  \* the platform bridge, lines 169-170
  unique_display, base_wndproc,
  \* the Alleg4Display object, lines 373-375, and its lifetime
  disp, m_surface, m_scale, m_queue, m_events,
  \* the bitmaps on the heap
  bitmaps,
  \* the caller's Event object handed to getEvent, and what was pushed/polled
  event, pushed, polled,
  \* the last operation, its argument, its result, and whether it allocated
  \* a backbuffer
  lastOp, lastArg, lastRet, lastAlloc,
  \* the copy to the screen the last operation made, if any
  lastBlit,
  \* construction and destruction of the Display step by step: the position
  \* in the constructor or destructor, the constructor's arguments, the
  \* backend calls made so far, the exception thrown, the backend's
  \* allegro_error text, the input devices, and what went wrong on delivery
  lpc, args, ctorLog, exception, allegro_error, mouse, keyboard, fault,
  \* the System singleton, the System objects and the Surface objects
  g_instance, systems, surfaces,
  \* SpecFlags: program counters and registers of flip() and of the callback
  fpc, freg, cpc, creg, pendingRefresh, pendingResize,
  \* SpecVector: the vector's storage and size, counters and registers
  vbuf, vsize, gpc, greg, qpc, qreg, qev

statics == <<display_flags, original_width, original_height>>
backend == <<gfx_mode, SCREEN_W, SCREEN_H, switch_in_cb, resize_cb>>
window == <<win_w, win_h, win_maximized, win_normal_w, win_normal_h>>
bridge == <<unique_display, base_wndproc>>
display == <<disp, m_surface, m_scale, m_queue>>
queue == <<m_events, event, pushed, polled>>
ghost == <<lastOp, lastArg, lastRet, lastAlloc, lastBlit>>
lifeVars == <<lpc, args, ctorLog, exception, allegro_error, mouse, keyboard,
              fault>>
systemVars == <<g_instance, systems, surfaces>>
flagsRace == <<fpc, freg, cpc, creg, pendingRefresh, pendingResize>>
vectorRace == <<vbuf, vsize, gpc, greg, qpc, qreg, qev>>

vars == <<statics, backend, window, bridge, display, queue, bitmaps, ghost,
          flagsRace, vectorRace, lifeVars, systemVars>>

\* ------------------------------------------------------------ bit arithmetic
HasFlag(f, b) == (f \div b) % 2 = 1
BitOr(f, b) == IF HasFlag(f, b) THEN f ELSE f + b
BitXor(f, b) == IF HasFlag(f, b) THEN f - b ELSE f + b

\* ------------------------------------------------------------------- Event
\* A default-constructed Event.
NoEvent == [type |-> "None", files |-> <<>>]

\* ev.setType(Event::DropFiles); ev.setFiles(files);
DropFilesEvent(files) == [type |-> "DropFiles", files |-> files]

\* event.setType(type): assigns the kind and nothing else.
setType(ev, type) == [ev EXCEPT !.type = type]

\* What a read of a destroyed vector element may give besides its old value.
Garbage == [type |-> "Garbage", files |-> <<>>]

\* One element of the vector's storage: alive between its construction by
\* push_back and its destruction by erase.
EmptySlot == [ev |-> NoEvent, alive |-> FALSE]

\* No exception in flight.
NoException == [type |-> "none", what |-> ""]

\* throw DisplayCreationException(allegro_error)
DisplayCreationException(text) ==
  [type |-> "DisplayCreationException", what |-> text]

\* The constructor's arguments when no constructor runs.
NoArgs == [w |-> 0, h |-> 0, scale |-> 0]

\* ----------------------------------------------------------- Alleg4Surface
\* A Surface object that does not exist.
NoSurface == [state |-> "unused", bmp |-> NULL, destroy |-> "NoDestroy"]

NoBitmap == [live |-> FALSE, w |-> 0, h |-> 0]

\* Addresses create_bitmap may return: any that holds no live bitmap.
FreeIds(bm) == {i \in BitmapIds : ~bm[i].live}

\* new Alleg4Surface(width, height): create_bitmap, AutoDestroy.
NewSurface(bm, id, w, h) == [bm EXCEPT ![id] = [live |-> TRUE, w |-> w, h |-> h]]

\* surface->dispose(): delete this; the destructor destroys the bitmap.
DisposeSurface(bm, id) == [bm EXCEPT ![id] = NoBitmap]

\* -------------------------------------------------------- Alleg4EventQueue
\* getEvent taking m_events.back() instead of m_events[0].
getEvent_back(ev, events) ==
  IF Len(events) > 0
  THEN [event |-> events[Len(events)],
        m_events |-> SubSeq(events, 1, Len(events) - 1)]
  ELSE [event |-> setType(ev, "None"), m_events |-> events]

\* getEvent(event): the head if there is one, else only the kind is set.
getEvent(ev, events) ==
  IF Len(events) > 0
  THEN [event |-> events[1], m_events |-> Tail(events)]
  ELSE [event |-> setType(ev, "None"), m_events |-> events]

\* queueEvent(event): push_back.
queueEvent(events, ev) == Append(events, ev)

\* ------------------------------------------------------------ Alleg4Display
width == SCREEN_W
height == SCREEN_H

originalWidth == IF original_width > 0 THEN original_width ELSE width
originalHeight == IF original_height > 0 THEN original_height ELSE height

\* setScale sizing both sides of the backbuffer from SCREEN_W.
setScale_widthTwice(cur_surface, cur_scale, bm, W, H, scale, id) ==
  IF cur_scale = scale
  THEN [m_scale |-> cur_scale, m_surface |-> cur_surface, bitmaps |-> bm,
        alloc |-> FALSE]
  ELSE LET created == NewSurface(bm, id, W \div scale, W \div scale)
       IN [m_scale |-> scale,
           m_surface |-> id,
           bitmaps |-> IF cur_surface # NULL
                       THEN DisposeSurface(created, cur_surface)
                       ELSE created,
           alloc |-> TRUE]

\* setScale without the m_scale == scale early return.
setScale_noEarlyReturn(cur_surface, cur_scale, bm, W, H, scale, id) ==
  LET created == NewSurface(bm, id, W \div scale, H \div scale)
  IN [m_scale |-> scale,
      m_surface |-> id,
      bitmaps |-> IF cur_surface # NULL
                  THEN DisposeSurface(created, cur_surface)
                  ELSE created,
      alloc |-> TRUE]

\* setScale that never disposes the surface it replaces.
setScale_leak(cur_surface, cur_scale, bm, W, H, scale, id) ==
  IF cur_scale = scale
  THEN [m_scale |-> cur_scale, m_surface |-> cur_surface, bitmaps |-> bm,
        alloc |-> FALSE]
  ELSE [m_scale |-> scale,
        m_surface |-> id,
        bitmaps |-> NewSurface(bm, id, W \div scale, H \div scale),
        alloc |-> TRUE]

\* setScale(scale) on a Display whose fields are cur_surface and cur_scale,
\* with the screen W x H; id is the address the new bitmap gets.
setScale(cur_surface, cur_scale, bm, W, H, scale, id) ==
  IF cur_scale = scale
  THEN [m_scale |-> cur_scale, m_surface |-> cur_surface, bitmaps |-> bm,
        alloc |-> FALSE]
  ELSE LET created == NewSurface(bm, id, W \div scale, H \div scale)
       IN [m_scale |-> scale,
           m_surface |-> id,
           bitmaps |-> IF cur_surface # NULL
                       THEN DisposeSurface(created, cur_surface)
                       ELSE created,
           alloc |-> TRUE]

\* flip() copying 1:1 whatever the scale.
present_alwaysBlit(scale) == "blit"

\* flip(), lines 334-341: blit when the scale is 1, stretch_blit otherwise.
present(scale) == IF scale = 1 THEN "blit" ELSE "stretch_blit"

\* acknowledge_resize(): the backend adopts the window's size as the screen's.
acknowledge_resize == [w |-> win_w, h |-> win_h]

\* display_switch_in_callback()
display_switch_in_callback(flags) == BitOr(flags, DISPLAY_FLAG_FULL_REFRESH)

\* resize_callback(ev)
resize_callback(ev) ==
  [original_width |-> IF ev.is_maximized THEN ev.old_w ELSE original_width,
   original_height |-> IF ev.is_maximized THEN ev.old_h ELSE original_height,
   display_flags |-> BitOr(display_flags, DISPLAY_FLAG_WINDOW_RESIZE)]

\* ------------------------------------------------------------------- Init
InitSequential ==
  /\ display_flags = 0 /\ original_width = 0 /\ original_height = 0
  /\ gfx_mode = "none" /\ SCREEN_W = 0 /\ SCREEN_H = 0
  /\ switch_in_cb = FALSE /\ resize_cb = FALSE
  /\ win_w = 0 /\ win_h = 0 /\ win_maximized = FALSE
  /\ win_normal_w = 0 /\ win_normal_h = 0
  /\ unique_display = "null" /\ base_wndproc = "null"
  /\ disp = "none" /\ m_surface = NULL /\ m_scale = 0 /\ m_queue = "null"
  /\ m_events = <<>>
  /\ bitmaps = [i \in BitmapIds |-> NoBitmap]
  /\ event = NoEvent /\ pushed = <<>> /\ polled = <<>>
  /\ lastOp = "none" /\ lastArg = 0 /\ lastRet = FALSE /\ lastAlloc = FALSE
  /\ lastBlit = "none"

InitFlagsRace ==
  /\ fpc = "idle" /\ freg = 0 /\ cpc = "idle" /\ creg = 0
  /\ pendingRefresh = FALSE /\ pendingResize = FALSE

InitVectorRace ==
  /\ vbuf = [i \in 1..MaxPush |-> EmptySlot] /\ vsize = 0
  /\ gpc = "idle" /\ greg = 0
  /\ qpc = "idle" /\ qreg = 0 /\ qev = NoEvent

\* No constructor or destructor running, nothing thrown.
InitLife ==
  /\ lpc = "idle" /\ args = NoArgs /\ ctorLog = <<>>
  /\ exception = NoException /\ allegro_error = ""
  /\ mouse = FALSE /\ keyboard = FALSE /\ fault = "none"

\* g_instance is a zero-initialised static; no System or Surface exists.
InitSystem ==
  /\ g_instance = NULL
  /\ systems = [i \in SystemIds |-> "unused"]
  /\ surfaces = [i \in SurfaceIds |-> NoSurface]

Init == InitSequential /\ InitFlagsRace /\ InitVectorRace /\ InitLife
        /\ InitSystem

\* ---------------------------------------------------------------- actions
\* new Alleg4Display(width, height, scale), every backend call succeeding.
CreateDisplay ==
  /\ disp # "live"
  /\ \E size \in Sizes, scale \in 1..MaxScale, id \in FreeIds(bitmaps) :
       LET r == setScale(NULL, 0, bitmaps, size[1], size[2], scale, id)
       IN /\ unique_display' = "this"
          /\ gfx_mode' = "windowed"
          /\ SCREEN_W' = size[1] /\ SCREEN_H' = size[2]
          /\ win_w' = size[1] /\ win_h' = size[2] /\ win_maximized' = FALSE
          /\ win_normal_w' = 0 /\ win_normal_h' = 0
          /\ m_scale' = r.m_scale /\ m_surface' = r.m_surface
          /\ bitmaps' = r.bitmaps
          /\ lastArg' = scale /\ lastAlloc' = r.alloc
  /\ m_queue' = "live" /\ m_events' = <<>>
  /\ pushed' = <<>> /\ polled' = <<>>
  /\ switch_in_cb' = TRUE /\ resize_cb' = TRUE
  /\ base_wndproc' = "allegro"
  /\ disp' = "live"
  /\ lastBlit' = "none"
  /\ lastOp' = "create" /\ lastRet' = FALSE
  /\ UNCHANGED <<statics, event, flagsRace, vectorRace,
                 lifeVars, systemVars>>

\* display->dispose(): delete this, running ~Alleg4Display.
DisposeDisplay ==
  /\ disp = "live"
  /\ m_queue' = "deleted" /\ m_events' = <<>>
  /\ base_wndproc' = "null"
  /\ bitmaps' = DisposeSurface(bitmaps, m_surface)
  /\ gfx_mode' = "text" /\ SCREEN_W' = 0 /\ SCREEN_H' = 0
  /\ unique_display' = "null"
  /\ disp' = "destroyed"
  \* the object is gone, and its fields and the queue's history with it
  /\ m_surface' = NULL /\ m_scale' = 0
  /\ pushed' = <<>> /\ polled' = <<>>
  /\ lastBlit' = "none"
  /\ lastOp' = "dispose" /\ lastArg' = 0 /\ lastRet' = FALSE
  /\ lastAlloc' = FALSE
  /\ UNCHANGED <<statics, switch_in_cb, resize_cb, window, event, flagsRace,
                 vectorRace,
                 lifeVars, systemVars>>

\* display->setScale(scale)
SetScale ==
  /\ disp = "live"
  /\ \E scale \in 1..MaxScale, id \in FreeIds(bitmaps) :
       LET r == setScale(m_surface, m_scale, bitmaps, SCREEN_W, SCREEN_H,
                         scale, id)
       IN /\ m_scale' = r.m_scale /\ m_surface' = r.m_surface
          /\ bitmaps' = r.bitmaps
          /\ lastArg' = scale /\ lastAlloc' = r.alloc
  /\ lastBlit' = "none"
  /\ lastOp' = "setScale" /\ lastRet' = FALSE
  /\ UNCHANGED <<statics, backend, window, bridge, disp, m_queue, queue,
                 flagsRace, vectorRace,
                 lifeVars, systemVars>>

\* The resize-recovery path without "m_scale = 0": setScale returns early.
FlipResize_noScaleReset ==
  /\ disp = "live"
  /\ HasFlag(display_flags, DISPLAY_FLAG_WINDOW_RESIZE)
  /\ display_flags' = BitXor(display_flags, DISPLAY_FLAG_WINDOW_RESIZE)
  /\ \E id \in FreeIds(bitmaps) :
       LET scr == acknowledge_resize
           r == setScale(m_surface, m_scale, bitmaps, scr.w, scr.h, m_scale, id)
       IN /\ SCREEN_W' = scr.w /\ SCREEN_H' = scr.h
          /\ m_scale' = r.m_scale /\ m_surface' = r.m_surface
          /\ bitmaps' = r.bitmaps
          /\ lastAlloc' = r.alloc
  /\ lastBlit' = "none"
  /\ lastOp' = "flip" /\ lastArg' = 0 /\ lastRet' = FALSE
  /\ UNCHANGED <<original_width, original_height, gfx_mode, switch_in_cb,
                 resize_cb, window, bridge, disp, m_queue, queue,
                 flagsRace, vectorRace,
                 lifeVars, systemVars>>

\* display->flip(), the resize-recovery path: lines 321-330.
FlipResize ==
  /\ disp = "live"
  /\ HasFlag(display_flags, DISPLAY_FLAG_WINDOW_RESIZE)
  /\ display_flags' = BitXor(display_flags, DISPLAY_FLAG_WINDOW_RESIZE)
  /\ \E id \in FreeIds(bitmaps) :
       LET scr == acknowledge_resize
           scale == m_scale
           r == setScale(m_surface, 0, bitmaps, scr.w, scr.h, scale, id)
       IN /\ SCREEN_W' = scr.w /\ SCREEN_H' = scr.h
          /\ m_scale' = r.m_scale /\ m_surface' = r.m_surface
          /\ bitmaps' = r.bitmaps
          /\ lastAlloc' = r.alloc
  /\ lastBlit' = "none"
  /\ lastOp' = "flip" /\ lastArg' = 0 /\ lastRet' = FALSE
  /\ UNCHANGED <<original_width, original_height, gfx_mode, switch_in_cb,
                 resize_cb, window, bridge, disp, m_queue, queue,
                 flagsRace, vectorRace,
                 lifeVars, systemVars>>

\* display->flip(), the presenting path: lines 333-343.
FlipPresent ==
  /\ disp = "live"
  /\ ~HasFlag(display_flags, DISPLAY_FLAG_WINDOW_RESIZE)
  /\ lastBlit' = present(m_scale)
  /\ lastOp' = "flip" /\ lastArg' = 0 /\ lastRet' = TRUE /\ lastAlloc' = FALSE
  /\ UNCHANGED <<statics, backend, window, bridge, display, queue, bitmaps,
                 flagsRace, vectorRace,
                 lifeVars, systemVars>>

\* The user returns to the window: Allegro runs the SWITCH_IN callbacks.
SwitchIn ==
  /\ switch_in_cb
  /\ display_flags' = display_switch_in_callback(display_flags)
  /\ lastBlit' = "none"
  /\ lastOp' = "switchIn" /\ lastArg' = 0 /\ lastRet' = FALSE
  /\ lastAlloc' = FALSE
  /\ UNCHANGED <<original_width, original_height, backend, window, bridge,
                 display, queue, bitmaps, flagsRace, vectorRace,
                 lifeVars, systemVars>>

\* The window gets a new size (maximized, restored or dragged): the backend
\* runs the resize callback with the old size.
GeometryChange ==
  /\ resize_cb /\ gfx_mode = "windowed"
  /\ \E size \in Sizes, is_maximized \in BOOLEAN :
       /\ size # <<win_w, win_h>>
       /\ is_maximized => ~win_maximized
       /\ LET r == resize_callback([old_w |-> win_w, old_h |-> win_h,
                                    is_maximized |-> is_maximized])
          IN /\ original_width' = r.original_width
             /\ original_height' = r.original_height
             /\ display_flags' = r.display_flags
       /\ win_w' = size[1] /\ win_h' = size[2]
       /\ win_maximized' = is_maximized
       /\ win_normal_w' = IF is_maximized THEN win_w ELSE 0
       /\ win_normal_h' = IF is_maximized THEN win_h ELSE 0
  /\ lastBlit' = "none"
  /\ lastOp' = "resize" /\ lastArg' = 0 /\ lastRet' = FALSE
  /\ lastAlloc' = FALSE
  /\ UNCHANGED <<backend, bridge, display, queue, bitmaps, flagsRace,
                 vectorRace,
                 lifeVars, systemVars>>

\* WM_DROPFILES reaches wndproc: lines 176-199.
DropFiles ==
  /\ base_wndproc # "null"
  /\ unique_display = "this" /\ m_queue = "live"
  /\ Len(pushed) < MaxPush
  /\ \E k \in 1..Len(NativeDrops) :
       LET ev == DropFilesEvent(wndprocFiles(NativeDrops[k]))
       IN /\ m_events' = queueEvent(m_events, ev)
          /\ pushed' = Append(pushed, ev)
          /\ lastArg' = k
  /\ lastBlit' = "none"
  /\ lastOp' = "drop" /\ lastRet' = FALSE /\ lastAlloc' = FALSE
  /\ UNCHANGED <<statics, backend, window, bridge, display, event, polled,
                 bitmaps, flagsRace, vectorRace,
                 lifeVars, systemVars>>

\* display->getEventQueue()->getEvent(event): the caller hands either a new
\* Event or the one it used for the previous poll.
GetEvent ==
  /\ disp = "live" /\ m_queue = "live"
  /\ \E fresh \in BOOLEAN :
       LET r == getEvent(IF fresh THEN NoEvent ELSE event, m_events)
       IN /\ event' = r.event
          /\ m_events' = r.m_events
          /\ polled' = IF r.event.type # "None"
                       THEN Append(polled, r.event)
                       ELSE polled
  /\ lastBlit' = "none"
  /\ lastOp' = "getEvent" /\ lastArg' = 0 /\ lastRet' = FALSE
  /\ lastAlloc' = FALSE
  /\ UNCHANGED <<statics, backend, window, bridge, display, pushed, bitmaps,
                 flagsRace, vectorRace,
                 lifeVars, systemVars>>

\* The Display state machine: construction, scale, presentation, the two
\* notifications, destruction.
Next ==
  \/ CreateDisplay
  \/ DisposeDisplay
  \/ SetScale
  \/ FlipResize
  \/ FlipPresent
  \/ SwitchIn
  \/ GeometryChange

Spec == Init /\ [][Next]_vars

\* The EventQueue of a Display: the bridge pushes, the main loop polls.
NextEvents ==
  \/ CreateDisplay
  \/ DisposeDisplay
  \/ DropFiles
  \/ GetEvent

SpecEvents == Init /\ [][NextEvents]_vars

\* ================================================== flip() and the callbacks
\* A Display constructed as Alleg4Display(7, 5, 2), nothing having happened.
InitConstructed ==
  /\ display_flags = 0 /\ original_width = 0 /\ original_height = 0
  /\ gfx_mode = "windowed" /\ SCREEN_W = 7 /\ SCREEN_H = 5
  /\ switch_in_cb = TRUE /\ resize_cb = TRUE
  /\ win_w = 7 /\ win_h = 5 /\ win_maximized = FALSE
  /\ win_normal_w = 0 /\ win_normal_h = 0
  /\ unique_display = "this" /\ base_wndproc = "allegro"
  /\ disp = "live" /\ m_surface = 1 /\ m_scale = 2 /\ m_queue = "live"
  /\ m_events = <<>>
  /\ bitmaps = [i \in BitmapIds |->
                  IF i = 1 THEN [live |-> TRUE, w |-> 3, h |-> 2] ELSE NoBitmap]
  /\ event = NoEvent /\ pushed = <<>> /\ polled = <<>>
  /\ lastOp = "create" /\ lastArg = 2 /\ lastRet = FALSE /\ lastAlloc = TRUE
  /\ lastBlit = "none"

InitRace == InitConstructed /\ InitFlagsRace /\ InitVectorRace /\ InitLife
            /\ InitSystem

\* flip(), line 321: the test of the resize flag; lines 333-343 when clear.
FlipTest ==
  /\ disp = "live" /\ fpc = "idle"
  /\ IF HasFlag(display_flags, DISPLAY_FLAG_WINDOW_RESIZE)
     THEN /\ fpc' = "load"
          /\ UNCHANGED ghost
     ELSE /\ fpc' = "idle"
          /\ lastBlit' = present(m_scale)
          /\ lastOp' = "flip" /\ lastArg' = 0 /\ lastRet' = TRUE
          /\ lastAlloc' = FALSE
  /\ UNCHANGED <<statics, backend, window, bridge, display, queue, bitmaps,
                 freg, cpc, creg, pendingRefresh, pendingResize, vectorRace,
                 lifeVars, systemVars>>

\* flip(), line 322: the load of "display_flags ^= ...".
FlipLoad ==
  /\ fpc = "load"
  /\ freg' = display_flags
  /\ fpc' = "store"
  /\ UNCHANGED <<statics, backend, window, bridge, display, queue, bitmaps,
                 ghost, cpc, creg, pendingRefresh, pendingResize, vectorRace,
                 lifeVars, systemVars>>

\* flip(), line 322: the store of "display_flags ^= ...". The notifications
\* up to here are the ones this flip() answers by re-querying the size.
FlipStore ==
  /\ fpc = "store"
  /\ display_flags' = BitXor(freg, DISPLAY_FLAG_WINDOW_RESIZE)
  /\ fpc' = "recover"
  /\ freg' = 0
  /\ pendingResize' = FALSE
  /\ UNCHANGED <<original_width, original_height, backend, window, bridge,
                 display, queue, bitmaps, ghost, cpc, creg, pendingRefresh,
                 vectorRace,
                 lifeVars, systemVars>>

\* flip(), lines 324-329: acknowledge_resize, setScale, return false.
FlipRecover ==
  /\ fpc = "recover"
  /\ \E id \in FreeIds(bitmaps) :
       LET scr == acknowledge_resize
           scale == m_scale
           r == setScale(m_surface, 0, bitmaps, scr.w, scr.h, scale, id)
       IN /\ SCREEN_W' = scr.w /\ SCREEN_H' = scr.h
          /\ m_scale' = r.m_scale /\ m_surface' = r.m_surface
          /\ bitmaps' = r.bitmaps
          /\ lastAlloc' = r.alloc
  /\ fpc' = "idle"
  /\ lastBlit' = "none"
  /\ lastOp' = "flip" /\ lastArg' = 0 /\ lastRet' = FALSE
  /\ UNCHANGED <<statics, gfx_mode, switch_in_cb, resize_cb, window, bridge,
                 disp, m_queue, queue, freg, cpc, creg, pendingRefresh,
                 pendingResize, vectorRace,
                 lifeVars, systemVars>>

\* display_switch_in_callback, line 44: the load of "display_flags |= ...".
SwitchInLoad ==
  /\ switch_in_cb /\ cpc = "idle"
  /\ creg' = display_flags
  /\ cpc' = "refresh"
  /\ UNCHANGED <<statics, backend, window, bridge, display, queue, bitmaps,
                 ghost, fpc, freg, pendingRefresh, pendingResize, vectorRace,
                 lifeVars, systemVars>>

\* display_switch_in_callback, line 44: the store.
SwitchInStore ==
  /\ cpc = "refresh"
  /\ display_flags' = display_switch_in_callback(creg)
  /\ cpc' = "idle" /\ creg' = 0
  /\ pendingRefresh' = TRUE
  /\ UNCHANGED <<original_width, original_height, backend, window, bridge,
                 display, queue, bitmaps, ghost, fpc, freg, pendingResize,
                 vectorRace,
                 lifeVars, systemVars>>

\* The window gets a new size and resize_callback runs: lines 53-56 and the
\* load of "display_flags |= ..." of line 57.
ResizeLoad ==
  /\ resize_cb /\ gfx_mode = "windowed" /\ cpc = "idle"
  /\ \E size \in Sizes, is_maximized \in BOOLEAN :
       /\ size # <<win_w, win_h>>
       /\ is_maximized => ~win_maximized
       /\ LET r == resize_callback([old_w |-> win_w, old_h |-> win_h,
                                    is_maximized |-> is_maximized])
          IN /\ original_width' = r.original_width
             /\ original_height' = r.original_height
       /\ win_w' = size[1] /\ win_h' = size[2]
       /\ win_maximized' = is_maximized
       /\ win_normal_w' = IF is_maximized THEN win_w ELSE 0
       /\ win_normal_h' = IF is_maximized THEN win_h ELSE 0
  /\ creg' = display_flags
  /\ cpc' = "resize"
  /\ UNCHANGED <<display_flags, backend, bridge, display, queue, bitmaps,
                 ghost, fpc, freg, pendingRefresh, pendingResize, vectorRace,
                 lifeVars, systemVars>>

\* resize_callback, line 57: the store.
ResizeStore ==
  /\ cpc = "resize"
  /\ display_flags' = BitOr(creg, DISPLAY_FLAG_WINDOW_RESIZE)
  /\ cpc' = "idle" /\ creg' = 0
  /\ pendingResize' = TRUE
  /\ UNCHANGED <<original_width, original_height, backend, window, bridge,
                 display, queue, bitmaps, ghost, fpc, freg, pendingRefresh,
                 vectorRace,
                 lifeVars, systemVars>>

NextFlags ==
  \/ FlipTest
  \/ FlipLoad
  \/ FlipStore
  \/ FlipRecover
  \/ SwitchInLoad
  \/ SwitchInStore
  \/ ResizeLoad
  \/ ResizeStore

SpecFlags == InitRace /\ [][NextFlags]_vars

\* ============================================ getEvent against queueEvent
\* The events the vector holds: its first vsize elements.
Contents == [i \in 1..vsize |-> vbuf[i].ev]

\* What reading element i gives: its value, or, once destroyed, what is
\* left of it.
ReadSlot(i) == IF vbuf[i].alive THEN {vbuf[i].ev} ELSE {vbuf[i].ev, Garbage}

\* wndproc, lines 193-197, and push_back's load of the end of the vector.
PushBegin ==
  /\ base_wndproc # "null" /\ unique_display = "this" /\ m_queue = "live"
  /\ qpc = "idle"
  /\ Len(pushed) < MaxPush
  /\ \E files \in FileLists :
       /\ qev' = DropFilesEvent(files)
       /\ pushed' = Append(pushed, DropFilesEvent(files))
  /\ qreg' = vsize
  /\ qpc' = "construct"
  /\ UNCHANGED <<statics, backend, window, bridge, display, m_events, event,
                 polled, bitmaps, ghost, flagsRace, vbuf, vsize, gpc, greg,
                 lifeVars, systemVars>>

\* push_back: the copy of the event into the element past the end.
PushConstruct ==
  /\ qpc = "construct"
  /\ vbuf' = [vbuf EXCEPT ![qreg + 1] = [ev |-> qev, alive |-> TRUE]]
  /\ qpc' = "bump"
  /\ UNCHANGED <<statics, backend, window, bridge, display, queue, bitmaps,
                 ghost, flagsRace, vsize, gpc, greg, qreg, qev,
                 lifeVars, systemVars>>

\* push_back: the end moves one element on, from the value loaded before or
\* from a second load.
PushBump ==
  /\ qpc = "bump"
  /\ \E end \in {qreg, vsize} : vsize' = end + 1
  /\ qpc' = "idle" /\ qreg' = 0 /\ qev' = NoEvent
  /\ UNCHANGED <<statics, backend, window, bridge, display, queue, bitmaps,
                 ghost, flagsRace, vbuf, gpc, greg,
                 lifeVars, systemVars>>

\* getEvent, line 150 (and line 155 when the vector is empty).
PollTest ==
  /\ disp = "live" /\ m_queue = "live" /\ gpc = "idle"
  /\ \E fresh \in BOOLEAN :
       LET ev == IF fresh THEN NoEvent ELSE event
       IN IF vsize > 0
          THEN /\ event' = ev
               /\ gpc' = "copy"
               /\ UNCHANGED ghost
          ELSE /\ event' = setType(ev, "None")
               /\ gpc' = "idle"
               /\ lastBlit' = "none"
               /\ lastOp' = "getEvent" /\ lastArg' = 0 /\ lastRet' = FALSE
               /\ lastAlloc' = FALSE
  /\ UNCHANGED <<statics, backend, window, bridge, display, m_events, pushed,
                 polled, bitmaps, flagsRace, vbuf, vsize, greg, qpc, qreg,
                 qev,
                 lifeVars, systemVars>>

\* getEvent, line 151: event = m_events[0].
PollCopy ==
  /\ gpc = "copy"
  /\ event' \in ReadSlot(1)
  /\ gpc' = "shift"
  /\ UNCHANGED <<statics, backend, window, bridge, display, m_events, pushed,
                 polled, bitmaps, ghost, flagsRace, vbuf, vsize, greg, qpc,
                 qreg, qev,
                 lifeVars, systemVars>>

\* getEvent, line 152: erase loads the end, moves the elements after the
\* head one place down and destroys the last one.
PollShift ==
  /\ gpc = "shift"
  /\ greg' = vsize
  /\ vbuf' = [i \in 1..MaxPush |->
                IF i < vsize THEN vbuf[i + 1]
                ELSE IF i = vsize THEN [vbuf[i] EXCEPT !.alive = FALSE]
                ELSE vbuf[i]]
  /\ gpc' = "shrink"
  /\ UNCHANGED <<statics, backend, window, bridge, display, queue, bitmaps,
                 ghost, flagsRace, vsize, qpc, qreg, qev,
                 lifeVars, systemVars>>

\* getEvent, line 152: erase stores the new end; getEvent returns.
PollShrink ==
  /\ gpc = "shrink"
  /\ vsize' = greg - 1
  /\ greg' = 0
  /\ polled' = IF event.type # "None" THEN Append(polled, event) ELSE polled
  /\ gpc' = "idle"
  /\ lastBlit' = "none"
  /\ lastOp' = "getEvent" /\ lastArg' = 0 /\ lastRet' = FALSE
  /\ lastAlloc' = FALSE
  /\ UNCHANGED <<statics, backend, window, bridge, display, m_events, event,
                 pushed, bitmaps, flagsRace, vbuf, qpc, qreg, qev,
                 lifeVars, systemVars>>

NextVector ==
  \/ PushBegin
  \/ PushConstruct
  \/ PushBump
  \/ PollTest
  \/ PollCopy
  \/ PollShift
  \/ PollShrink

SpecVector == InitRace /\ [][NextVector]_vars

\* ===================================== the Display's constructor and destructor
\* What the backend may leave in allegro_error when a call fails.
ErrorTexts == {"", "driver not found"}

\* A backend call of the constructor failing: allegro_error holds what the
\* backend left there, the constructor throws DisplayCreationException built
\* from it and the object is never completed.
CtorThrow(call) ==
  /\ \E text \in ErrorTexts \cup {allegro_error} :
       /\ allegro_error' = text
       /\ exception' = DisplayCreationException(text)
  /\ ctorLog' = Append(ctorLog, call)
  /\ lpc' = "idle" /\ disp' = "failed"
  /\ args' = NoArgs

\* Lines 225-228: the member initialisers and unique_display = this.
CtorBegin ==
  /\ lpc = "idle" /\ disp # "live"
  /\ \E size \in Sizes, scale \in 1..MaxScale :
       args' = [w |-> size[1], h |-> size[2], scale |-> scale]
  /\ m_surface' = NULL /\ m_scale' = 0 /\ m_queue' = "uninitialized"
  /\ m_events' = <<>>
  /\ unique_display' = "this"
  /\ disp' = "constructing"
  /\ lpc' = "install_mouse"
  /\ ctorLog' = <<>> /\ exception' = NoException
  /\ UNCHANGED <<statics, backend, window, base_wndproc, event, pushed, polled,
                 bitmaps, ghost, flagsRace, vectorRace, allegro_error, mouse,
                 keyboard, fault, systemVars>>

\* Line 230: install_mouse().
CtorInstallMouse ==
  /\ lpc = "install_mouse"
  /\ \/ /\ mouse' = TRUE
        /\ ctorLog' = Append(ctorLog, "install_mouse")
        /\ lpc' = "install_keyboard"
        /\ UNCHANGED <<disp, args, exception, allegro_error>>
     \/ /\ CtorThrow("install_mouse")
        /\ UNCHANGED mouse
  /\ UNCHANGED <<statics, backend, window, bridge, m_surface, m_scale, m_queue,
                 queue, bitmaps, ghost, flagsRace, vectorRace, keyboard, fault,
                 systemVars>>

\* Line 231: install_keyboard().
CtorInstallKeyboard ==
  /\ lpc = "install_keyboard"
  /\ \/ /\ keyboard' = TRUE
        /\ ctorLog' = Append(ctorLog, "install_keyboard")
        /\ lpc' = "set_gfx_mode"
        /\ UNCHANGED <<disp, args, exception, allegro_error>>
     \/ /\ CtorThrow("install_keyboard")
        /\ UNCHANGED keyboard
  /\ UNCHANGED <<statics, backend, window, bridge, m_surface, m_scale, m_queue,
                 queue, bitmaps, ghost, flagsRace, vectorRace, mouse, fault,
                 systemVars>>

\* set_gfx_mode called again after it failed.
CtorSetGfxMode_retry ==
  /\ lpc = "set_gfx_mode"
  /\ \/ /\ gfx_mode' = "windowed"
        /\ SCREEN_W' = args.w /\ SCREEN_H' = args.h
        /\ win_w' = args.w /\ win_h' = args.h /\ win_maximized' = FALSE
        /\ win_normal_w' = 0 /\ win_normal_h' = 0
        /\ ctorLog' = Append(ctorLog, "set_gfx_mode")
        /\ lpc' = "setScale"
        /\ UNCHANGED <<disp, args, exception, allegro_error>>
     \/ /\ Len(ctorLog) < 4
        /\ ctorLog' = Append(ctorLog, "set_gfx_mode")
        /\ UNCHANGED <<lpc, disp, args, exception, allegro_error>>
        /\ UNCHANGED <<gfx_mode, SCREEN_W, SCREEN_H, window>>
  /\ UNCHANGED <<statics, switch_in_cb, resize_cb, bridge, m_surface, m_scale,
                 m_queue, queue, bitmaps, ghost, flagsRace, vectorRace, mouse,
                 keyboard, fault, systemVars>>

\* Lines 239-246: set_gfx_mode(GFX_AUTODETECT_WINDOWED, width, height, 0, 0).
CtorSetGfxMode ==
  /\ lpc = "set_gfx_mode"
  /\ \/ /\ gfx_mode' = "windowed"
        /\ SCREEN_W' = args.w /\ SCREEN_H' = args.h
        /\ win_w' = args.w /\ win_h' = args.h /\ win_maximized' = FALSE
        /\ win_normal_w' = 0 /\ win_normal_h' = 0
        /\ ctorLog' = Append(ctorLog, "set_gfx_mode")
        /\ lpc' = "setScale"
        /\ UNCHANGED <<disp, args, exception, allegro_error>>
     \/ /\ CtorThrow("set_gfx_mode")
        /\ UNCHANGED <<gfx_mode, SCREEN_W, SCREEN_H, window>>
  /\ UNCHANGED <<statics, switch_in_cb, resize_cb, bridge, m_surface, m_scale,
                 m_queue, queue, bitmaps, ghost, flagsRace, vectorRace, mouse,
                 keyboard, fault, systemVars>>

\* Line 248: setScale(scale).
CtorSetScale ==
  /\ lpc = "setScale"
  /\ \E id \in FreeIds(bitmaps) :
       LET r == setScale(m_surface, m_scale, bitmaps, SCREEN_W, SCREEN_H,
                         args.scale, id)
       IN /\ m_scale' = r.m_scale /\ m_surface' = r.m_surface
          /\ bitmaps' = r.bitmaps
  /\ ctorLog' = Append(ctorLog, "setScale")
  /\ lpc' = "new_queue"
  /\ UNCHANGED <<statics, backend, window, bridge, disp, m_queue, queue, ghost,
                 flagsRace, vectorRace, args, exception, allegro_error, mouse,
                 keyboard, fault, systemVars>>

\* Line 250: m_queue = new Alleg4EventQueue().
CtorNewQueue ==
  /\ lpc = "new_queue"
  /\ m_queue' = "live" /\ m_events' = <<>>
  /\ ctorLog' = Append(ctorLog, "new_queue")
  /\ lpc' = "set_display_switch_callback"
  /\ UNCHANGED <<statics, backend, window, bridge, disp, m_surface, m_scale,
                 event, pushed, polled, bitmaps, ghost, flagsRace, vectorRace,
                 args, exception, allegro_error, mouse, keyboard, fault,
                 systemVars>>

\* Line 256: set_display_switch_callback(SWITCH_IN, display_switch_in_callback).
CtorSwitchCallback ==
  /\ lpc = "set_display_switch_callback"
  /\ switch_in_cb' = TRUE
  /\ ctorLog' = Append(ctorLog, "set_display_switch_callback")
  /\ lpc' = "set_resize_callback"
  /\ UNCHANGED <<statics, gfx_mode, SCREEN_W, SCREEN_H, resize_cb, window,
                 bridge, display, queue, bitmaps, ghost, flagsRace, vectorRace,
                 args, exception, allegro_error, mouse, keyboard, fault,
                 systemVars>>

\* The constructor passing line 260 without registering resize_callback.
CtorResizeCallback_skipped ==
  /\ lpc = "set_resize_callback"
  /\ ctorLog' = Append(ctorLog, "set_resize_callback")
  /\ lpc' = "subclass_hwnd"
  /\ UNCHANGED <<statics, backend, window, bridge, display, queue, bitmaps,
                 ghost, flagsRace, vectorRace, args, exception, allegro_error,
                 mouse, keyboard, fault, systemVars>>

\* Line 260: set_resize_callback(resize_callback).
CtorResizeCallback ==
  /\ lpc = "set_resize_callback"
  /\ resize_cb' = TRUE
  /\ ctorLog' = Append(ctorLog, "set_resize_callback")
  /\ lpc' = "subclass_hwnd"
  /\ UNCHANGED <<statics, gfx_mode, SCREEN_W, SCREEN_H, switch_in_cb, window,
                 bridge, display, queue, bitmaps, ghost, flagsRace, vectorRace,
                 args, exception, allegro_error, mouse, keyboard, fault,
                 systemVars>>

\* Lines 264-266: subclass_hwnd(nativeHandle()); the constructor returns.
CtorSubclass ==
  /\ lpc = "subclass_hwnd"
  /\ base_wndproc' = "allegro"
  /\ ctorLog' = Append(ctorLog, "subclass_hwnd")
  /\ lpc' = "idle" /\ disp' = "live" /\ args' = NoArgs
  /\ UNCHANGED <<statics, backend, window, unique_display, m_surface, m_scale,
                 m_queue, queue, bitmaps, ghost, flagsRace, vectorRace,
                 exception, allegro_error, mouse, keyboard, fault, systemVars>>

\* Line 269: display->dispose() runs ~Alleg4Display, which begins with
\* delete m_queue.
DtorDeleteQueue ==
  /\ lpc = "idle" /\ disp = "live"
  /\ m_queue' = "deleted" /\ m_events' = <<>>
  /\ disp' = "destroying"
  /\ lpc' = "unsubclass_hwnd"
  /\ UNCHANGED <<statics, backend, window, bridge, m_surface, m_scale, event,
                 pushed, polled, bitmaps, ghost, flagsRace, vectorRace, args,
                 ctorLog, exception, allegro_error, mouse, keyboard, fault,
                 systemVars>>

\* Line 272: unsubclass_hwnd(nativeHandle()).
DtorUnsubclass ==
  /\ lpc = "unsubclass_hwnd"
  /\ base_wndproc' = "null"
  /\ lpc' = "dispose_surface"
  /\ UNCHANGED <<statics, backend, window, unique_display, display, queue,
                 bitmaps, ghost, flagsRace, vectorRace, args, ctorLog,
                 exception, allegro_error, mouse, keyboard, fault, systemVars>>

\* Line 275: m_surface->dispose().
DtorDisposeSurface ==
  /\ lpc = "dispose_surface"
  /\ bitmaps' = DisposeSurface(bitmaps, m_surface)
  /\ lpc' = "set_gfx_mode_text"
  /\ UNCHANGED <<statics, backend, window, bridge, display, queue, ghost,
                 flagsRace, vectorRace, args, ctorLog, exception,
                 allegro_error, mouse, keyboard, fault, systemVars>>

\* Line 276: set_gfx_mode(GFX_TEXT, 0, 0, 0, 0).
DtorTextMode ==
  /\ lpc = "set_gfx_mode_text"
  /\ gfx_mode' = "text" /\ SCREEN_W' = 0 /\ SCREEN_H' = 0
  /\ lpc' = "clear_unique_display"
  /\ UNCHANGED <<statics, switch_in_cb, resize_cb, window, bridge, display,
                 queue, bitmaps, ghost, flagsRace, vectorRace, args, ctorLog,
                 exception, allegro_error, mouse, keyboard, fault, systemVars>>

\* Line 278: unique_display = NULL; the destructor returns and the object is
\* gone.
DtorClearUnique ==
  /\ lpc = "clear_unique_display"
  /\ unique_display' = "null"
  /\ m_surface' = NULL /\ m_scale' = 0
  /\ disp' = "destroyed"
  /\ lpc' = "idle"
  /\ UNCHANGED <<statics, backend, window, base_wndproc, m_queue, queue,
                 bitmaps, ghost, flagsRace, vectorRace, args, ctorLog,
                 exception, allegro_error, mouse, keyboard, fault, systemVars>>

\* Lines 172-203: the window procedure receives WM_DROPFILES while the window
\* is subclassed, whatever the constructor or destructor is doing, and calls
\* unique_display->getEventQueue()->queueEvent(ev).
WndprocDropFiles ==
  /\ base_wndproc # "null"
  /\ fault = "none"
  /\ IF unique_display = "this" /\ m_queue = "live"
     THEN /\ Len(m_events) < MaxPush
          /\ \E files \in FileLists :
               m_events' = queueEvent(m_events, DropFilesEvent(files))
          /\ UNCHANGED fault
     ELSE /\ fault' = "queueEvent on a deleted queue"
          /\ UNCHANGED m_events
  /\ UNCHANGED <<statics, backend, window, bridge, display, event, pushed,
                 polled, bitmaps, ghost, flagsRace, vectorRace, lpc, args,
                 ctorLog, exception, allegro_error, mouse, keyboard,
                 systemVars>>

\* The life of a Display, one statement of its constructor or destructor at a
\* time, with the window procedure running beside them.
NextLife ==
  \/ CtorBegin
  \/ CtorInstallMouse
  \/ CtorInstallKeyboard
  \/ CtorSetGfxMode
  \/ CtorSetScale
  \/ CtorNewQueue
  \/ CtorSwitchCallback
  \/ CtorResizeCallback
  \/ CtorSubclass
  \/ DtorDeleteQueue
  \/ DtorUnsubclass
  \/ DtorDisposeSurface
  \/ DtorTextMode
  \/ DtorClearUnique
  \/ WndprocDropFiles

SpecLife == Init /\ [][NextLife]_vars

\* ============================================== the System and its Surfaces
\* ~Alleg4Surface destroying the bitmap whatever m_destroy says.
destroySurface_always(surf, bm) ==
  IF surf.bmp # NULL THEN [bm EXCEPT ![surf.bmp] = NoBitmap] ELSE bm

\* ~Alleg4Surface, lines 80-83: destroy_bitmap(m_bmp) only under AutoDestroy
\* (destroy_bitmap(NULL) does nothing).
destroySurface(surf, bm) ==
  IF surf.destroy = "AutoDestroy" /\ surf.bmp # NULL
  THEN [bm EXCEPT ![surf.bmp] = NoBitmap]
  ELSE bm

\* The Surface objects that exist.
LiveSurfaces == {s \in SurfaceIds : surfaces[s].state = "live"}

\* The bitmaps some Surface object points at.
Wrapped == {surfaces[s].bmp : s \in LiveSurfaces}

\* Lines 418-422: CreateSystem() { return g_instance = new Alleg4System(); }
CreateSystem ==
  /\ \E id \in SystemIds :
       /\ systems[id] = "unused"
       /\ systems' = [systems EXCEPT ![id] = "live"]
       /\ g_instance' = id
       /\ lastArg' = id
  /\ lastBlit' = "none"
  /\ lastOp' = "CreateSystem" /\ lastRet' = FALSE /\ lastAlloc' = FALSE
  /\ UNCHANGED <<statics, backend, window, bridge, display, queue, bitmaps,
                 surfaces, flagsRace, vectorRace, lifeVars>>

\* Lines 424-427: Instance() { return g_instance; }
Instance ==
  /\ lastBlit' = "none"
  /\ lastOp' = "Instance" /\ lastArg' = g_instance
  /\ lastRet' = FALSE /\ lastAlloc' = FALSE
  /\ UNCHANGED <<statics, backend, window, bridge, display, queue, bitmaps,
                 flagsRace, vectorRace, lifeVars, systemVars>>

\* Lines 390-401: system->dispose() { delete this; } running ~Alleg4System.
DisposeSystem ==
  /\ \E id \in SystemIds :
       /\ systems[id] = "live"
       /\ systems' = [systems EXCEPT ![id] = "disposed"]
       /\ lastArg' = id
  /\ lastBlit' = "none"
  /\ lastOp' = "disposeSystem" /\ lastRet' = FALSE /\ lastAlloc' = FALSE
  /\ UNCHANGED <<statics, backend, window, bridge, display, queue, bitmaps,
                 g_instance, surfaces, flagsRace, vectorRace, lifeVars>>

\* Lines 407-409 and 74-78: createSurface(width, height) returns
\* new Alleg4Surface(width, height), whose m_bmp is what create_bitmap
\* returned: a new bitmap, or NULL when the backend cannot allocate one.
CreateSurface ==
  /\ \E sys \in SystemIds : systems[sys] = "live"
  /\ \E s \in SurfaceIds, size \in Sizes,
        bmp \in FreeIds(bitmaps) \cup {NULL} :
       /\ surfaces[s].state = "unused"
       /\ surfaces' = [surfaces EXCEPT
                         ![s] = [state |-> "live", bmp |-> bmp,
                                 destroy |-> "AutoDestroy"]]
       /\ bitmaps' = IF bmp # NULL
                     THEN NewSurface(bitmaps, bmp, size[1], size[2])
                     ELSE bitmaps
       /\ lastArg' = s /\ lastAlloc' = (bmp # NULL)
  /\ lastBlit' = "none"
  /\ lastOp' = "createSurface" /\ lastRet' = FALSE
  /\ UNCHANGED <<statics, backend, window, bridge, display, queue,
                 g_instance, systems, flagsRace, vectorRace, lifeVars>>

\* A native buffer made by its owner outside this layer (create_bitmap).
NativeCreateBitmap ==
  /\ \E id \in FreeIds(bitmaps), size \in Sizes :
       /\ bitmaps' = NewSurface(bitmaps, id, size[1], size[2])
       /\ lastArg' = id
  /\ lastBlit' = "none"
  /\ lastOp' = "nativeCreate" /\ lastRet' = FALSE /\ lastAlloc' = TRUE
  /\ UNCHANGED <<statics, backend, window, bridge, display, queue,
                 flagsRace, vectorRace, lifeVars, systemVars>>

\* The owner of a native buffer destroys it once no Surface points at it.
NativeDestroyBitmap ==
  /\ \E id \in BitmapIds :
       /\ bitmaps[id].live /\ id \notin Wrapped
       /\ bitmaps' = [bitmaps EXCEPT ![id] = NoBitmap]
       /\ lastArg' = id
  /\ lastBlit' = "none"
  /\ lastOp' = "nativeDestroy" /\ lastRet' = FALSE /\ lastAlloc' = FALSE
  /\ UNCHANGED <<statics, backend, window, bridge, display, queue,
                 flagsRace, vectorRace, lifeVars, systemVars>>

\* Lines 411-414: createSurfaceFromNativeHandle(nativeHandle) returns
\* new Alleg4Surface(handle, AutoDestroy): the Surface takes the buffer over.
CreateSurfaceFromNativeHandle ==
  /\ \E sys \in SystemIds : systems[sys] = "live"
  /\ \E s \in SurfaceIds, bmp \in BitmapIds :
       /\ surfaces[s].state = "unused"
       /\ bitmaps[bmp].live /\ bmp \notin Wrapped
       /\ surfaces' = [surfaces EXCEPT
                         ![s] = [state |-> "live", bmp |-> bmp,
                                 destroy |-> "AutoDestroy"]]
       /\ lastArg' = s
  /\ lastBlit' = "none"
  /\ lastOp' = "createSurfaceFromNativeHandle"
  /\ lastRet' = FALSE /\ lastAlloc' = FALSE
  /\ UNCHANGED <<statics, backend, window, bridge, display, queue, bitmaps,
                 g_instance, systems, flagsRace, vectorRace, lifeVars>>

\* Lines 68-72: new Alleg4Surface(bmp, NoDestroy) over a buffer that stays
\* its owner's.
WrapBorrowed ==
  /\ \E s \in SurfaceIds, bmp \in BitmapIds :
       /\ surfaces[s].state = "unused"
       /\ bitmaps[bmp].live
       /\ surfaces' = [surfaces EXCEPT
                         ![s] = [state |-> "live", bmp |-> bmp,
                                 destroy |-> "NoDestroy"]]
       /\ lastArg' = s
  /\ lastBlit' = "none"
  /\ lastOp' = "wrapBorrowed" /\ lastRet' = FALSE /\ lastAlloc' = FALSE
  /\ UNCHANGED <<statics, backend, window, bridge, display, queue, bitmaps,
                 g_instance, systems, flagsRace, vectorRace, lifeVars>>

\* Lines 87-89 and 80-83: surface->dispose() { delete this; }.  An AutoDestroy
\* Surface is disposed after the Surfaces that borrow its buffer.  lastArg is
\* the Surface's m_bmp and lastRet tells whether it was AutoDestroy.
DisposeSurfaceObject ==
  /\ \E s \in LiveSurfaces :
       /\ surfaces[s].destroy = "AutoDestroy" =>
            \A t \in LiveSurfaces \ {s} : surfaces[t].bmp # surfaces[s].bmp
       /\ bitmaps' = destroySurface(surfaces[s], bitmaps)
       /\ surfaces' = [surfaces EXCEPT ![s] = NoSurface]
       /\ lastArg' = surfaces[s].bmp
       /\ lastRet' = (surfaces[s].destroy = "AutoDestroy")
  /\ lastBlit' = "none"
  /\ lastOp' = "disposeSurface" /\ lastAlloc' = FALSE
  /\ UNCHANGED <<statics, backend, window, bridge, display, queue,
                 g_instance, systems, flagsRace, vectorRace, lifeVars>>

\* The System and its singleton pointer.
NextSystem ==
  \/ CreateSystem
  \/ Instance
  \/ DisposeSystem

SpecSystem == Init /\ [][NextSystem]_vars

\* CreateSystem() has run once: the System that hands out the Surfaces.
InitSurfaces ==
  /\ InitSequential /\ InitFlagsRace /\ InitVectorRace /\ InitLife
  /\ g_instance = 1
  /\ systems = [i \in SystemIds |-> IF i = 1 THEN "live" ELSE "unused"]
  /\ surfaces = [i \in SurfaceIds |-> NoSurface]

\* The Surfaces of a System and the native buffers beside them.
NextSurfaces ==
  \/ CreateSurface
  \/ NativeCreateBitmap
  \/ NativeDestroyBitmap
  \/ CreateSurfaceFromNativeHandle
  \/ WrapBorrowed
  \/ DisposeSurfaceObject

SpecSurfaces == InitSurfaces /\ [][NextSurfaces]_vars

\* ==================================================================== C1
\* C1: for any interleaving of pushes and polls on one EventQueue, the
\* non-None events returned by getEvent are a prefix of the pushed events in
\* push order, and together with what is still queued they are exactly the
\* pushed events: nothing is lost, duplicated, reordered or coalesced, and
\* once the queue is drained the polls have returned every push in order.
C1_Fifo ==
  /\ Len(polled) <= Len(pushed)
  /\ polled = SubSeq(pushed, 1, Len(polled))
  /\ m_queue = "live" => pushed = polled \o m_events
  /\ (m_queue = "live" /\ m_events = <<>>) => polled = pushed

\* Three pushes, not all alike, then three polls.
C1_Witness ==
  /\ lastOp = "getEvent" /\ m_events = <<>>
  /\ Len(polled) = 3 /\ polled = pushed
  /\ polled[1] # polled[2]

\* ==================================================================== C2
\* C2: getEvent on an empty queue yields an event of kind None that carries
\* no payload, and leaves the queue empty, whatever the Event object handed
\* to it held before.
C2_EmptyPollGivesBareNone ==
  [][(lastOp' = "getEvent" /\ m_queue = "live" /\ m_events = <<>>)
       => (event' = NoEvent /\ m_events' = <<>>)]_vars

\* ==================================================================== C3
\* C3: while a Display is constructed, its backbuffer is a live surface of
\* floor(SCREEN_W / scale) x floor(SCREEN_H / scale), with scale >= 1.
C3_BackbufferDims ==
  disp = "live" =>
    /\ m_scale >= 1
    /\ m_surface # NULL
    /\ bitmaps[m_surface].live
    /\ bitmaps[m_surface].w = SCREEN_W \div m_scale
    /\ bitmaps[m_surface].h = SCREEN_H \div m_scale

\* After a resize to 7x5 at scale 2 flip has reallocated a 3x2 backbuffer.
C3_Witness ==
  /\ disp = "live" /\ lastOp = "flip" /\ lastRet = FALSE
  /\ SCREEN_W = 7 /\ SCREEN_H = 5 /\ m_scale = 2
  /\ bitmaps[m_surface].w = 3 /\ bitmaps[m_surface].h = 2

\* ==================================================================== C4
\* C4: a flip() that finds the resize flag set returns false, clears the
\* flag, keeps the scale and leaves a newly allocated backbuffer of
\* floor(window size / scale); a flip() that directly follows one that
\* returned false returns true.
C4_FlipAfterResize ==
  [][/\ (lastOp' = "flip"
         /\ HasFlag(display_flags, DISPLAY_FLAG_WINDOW_RESIZE))
        => /\ lastRet' = FALSE
           /\ ~HasFlag(display_flags', DISPLAY_FLAG_WINDOW_RESIZE)
           /\ m_scale' = m_scale
           /\ lastAlloc'
           /\ m_surface' # m_surface
           /\ bitmaps'[m_surface'] =
                [live |-> TRUE, w |-> win_w \div m_scale,
                 h |-> win_h \div m_scale]
           /\ SCREEN_W' = win_w /\ SCREEN_H' = win_h
     /\ (lastOp = "flip" /\ lastRet = FALSE /\ lastOp' = "flip")
        => lastRet' = TRUE
    ]_vars

\* The flip() after a resize to 9x8 at scale 2 has returned false.
C4_Witness ==
  /\ lastOp = "flip" /\ lastRet = FALSE /\ lastAlloc
  /\ ~HasFlag(display_flags, DISPLAY_FLAG_WINDOW_RESIZE)
  /\ win_w = 9 /\ m_scale = 2 /\ bitmaps[m_surface].w = 4

\* ==================================================================== C5
\* C5: setScale(n) with n the current scale allocates and disposes nothing
\* and changes neither the backbuffer, the scale nor the flags; with another
\* n >= 1 it allocates a new backbuffer and disposes the previous one.
C5_SetScale ==
  [][lastOp' = "setScale" =>
       IF lastArg' = m_scale
       THEN /\ m_surface' = m_surface /\ bitmaps' = bitmaps
            /\ m_scale' = m_scale /\ display_flags' = display_flags
            /\ ~lastAlloc'
       ELSE /\ lastAlloc'
            /\ m_scale' = lastArg'
            /\ m_surface' # m_surface
            /\ ~bitmaps[m_surface'].live /\ bitmaps'[m_surface'].live
            /\ bitmaps[m_surface].live /\ ~bitmaps'[m_surface].live
            /\ display_flags' = display_flags
    ]_vars

\* setScale(2) on a Display whose scale is 2 has returned.
C5_Witness ==
  /\ disp = "live" /\ lastOp = "setScale" /\ lastArg = 2 /\ m_scale = 2
  /\ ~lastAlloc

\* ==================================================================== C6
\* C6: the flip() that follows a notification leaves that notification's
\* flag clear: full-refresh after a focus-regain, resize after a geometry
\* change.
C6_FlipClearsFlags ==
  [][lastOp' = "flip" =>
       /\ HasFlag(display_flags, DISPLAY_FLAG_FULL_REFRESH)
            => ~HasFlag(display_flags', DISPLAY_FLAG_FULL_REFRESH)
       /\ HasFlag(display_flags, DISPLAY_FLAG_WINDOW_RESIZE)
            => ~HasFlag(display_flags', DISPLAY_FLAG_WINDOW_RESIZE)
    ]_vars

\* ==================================================================== C7
\* C7: while the window is maximized originalWidth()/originalHeight() are
\* the size it had before; when it is not (never maximized, restored, or
\* resized by hand) they are the current width()/height().
C7_OriginalDims ==
  disp = "live" =>
    IF win_maximized
    THEN originalWidth = win_normal_w /\ originalHeight = win_normal_h
    ELSE originalWidth = width /\ originalHeight = height

\* ==================================================================== C8
\* C8: once a Display is disposed its EventQueue is destroyed, neither the
\* focus-regain nor the geometry-change hook is installed, the window
\* procedure is unhooked, no backbuffer is live and the graphics mode is
\* released.
C8_DisposeReleases ==
  disp = "destroyed" =>
    /\ m_queue = "deleted"
    /\ ~switch_in_cb /\ ~resize_cb
    /\ base_wndproc = "null" /\ unique_display = "null"
    /\ \A i \in BitmapIds : ~bitmaps[i].live
    /\ gfx_mode = "text"

\* ==================================================================== C9
\* C9: whatever the interleaving of the two callbacks with flip()'s test and
\* clear of the resize flag, no notification is lost: when flip() is not
\* running, the full-refresh flag is set if a focus-regain notification has
\* fired, and the resize flag is set if a geometry-change notification has
\* fired that no flip() has answered.
C9_NoNotificationLost ==
  fpc = "idle" =>
    /\ pendingRefresh => HasFlag(display_flags, DISPLAY_FLAG_FULL_REFRESH)
    /\ pendingResize => HasFlag(display_flags, DISPLAY_FLAG_WINDOW_RESIZE)

\* =================================================================== C10
\* C10: whatever the interleaving of queueEvent's steps with getEvent's,
\* once both have returned the events polled so far followed by the events
\* in the vector are the pushed events in push order, and every element of
\* the vector is a constructed event: none lost, duplicated, torn or stale.
C10_PushDuringPoll ==
  (gpc = "idle" /\ qpc = "idle") =>
    /\ \A i \in 1..vsize : vbuf[i].alive
    /\ pushed = polled \o Contents

\* =================================================================== C11
\* C11: when install_mouse, install_keyboard or set_gfx_mode fails, the
\* constructor throws DisplayCreationException carrying allegro_error, having
\* made every backend call at most once, and the failed attempt has allocated
\* no backbuffer, created no EventQueue and installed no hook.
C11_FailedCreation ==
  /\ \A i, j \in 1..Len(ctorLog) : ctorLog[i] = ctorLog[j] => i = j
  /\ disp = "failed" =>
       /\ exception = DisplayCreationException(allegro_error)
       /\ ctorLog[Len(ctorLog)] \in
            {"install_mouse", "install_keyboard", "set_gfx_mode"}
       /\ \A i \in 1..Len(ctorLog) :
            ctorLog[i] \notin {"setScale", "new_queue",
                               "set_display_switch_callback",
                               "set_resize_callback", "subclass_hwnd"}
       /\ m_surface = NULL /\ \A b \in BitmapIds : ~bitmaps[b].live
       /\ m_queue # "live"
       /\ base_wndproc = "null"

\* set_gfx_mode has failed with an error text after the mouse and the
\* keyboard were installed.
C11_Witness ==
  /\ disp = "failed"
  /\ ctorLog = <<"install_mouse", "install_keyboard", "set_gfx_mode">>
  /\ exception = DisplayCreationException("driver not found")

\* =================================================================== C12
\* C12: every Surface that createSurface(width, height) returned has a
\* backing buffer; when the backend cannot allocate one the call fails
\* instead of returning a Surface.
C12_SurfaceHasBuffer ==
  \A s \in SurfaceIds :
    surfaces[s].state = "live" =>
      /\ surfaces[s].bmp # NULL
      /\ bitmaps[surfaces[s].bmp].live

C14_DropBecomesOneEvent ==
  [][/\ lastOp' = "drop" =>
          LET hdrop == NativeDrops[lastArg']
              idx == {i \in 1..Len(hdrop) : hdrop[i] # <<>>}
              paths == SelectSeq(hdrop, LAMBDA str : str # <<>>)
          IN /\ Len(m_events') = Len(m_events) + 1
             /\ SubSeq(m_events', 1, Len(m_events)) = m_events
             /\ m_events'[Len(m_events')].type = "DropFiles"
             /\ Len(m_events'[Len(m_events')].files) = Cardinality(idx)
             /\ \A i \in 1..Len(paths) :
                  m_events'[Len(m_events')].files[i] = to_utf8(paths[i])
     /\ (lastOp' = "getEvent" /\ m_events # <<>>) =>
          /\ event' = Head(m_events)
          /\ m_events' = Tail(m_events)
    ]_vars

\* The drop of "a" and the accented "e" has been polled back: two UTF-8
\* paths in the order of the drop.
C14_Witness ==
  /\ lastOp = "getEvent"
  /\ event = DropFilesEvent(<< <<97>>, <<195, 169>> >>)
  /\ pushed # <<>> /\ polled = pushed

\* =================================================================== C15
\* C15: flip() presents exactly when it returns true.  With the resize flag
\* set at entry it returns false and copies nothing to the screen; otherwise
\* it copies the backbuffer (blit at scale 1, stretch_blit at any other
\* scale), returns true and leaves scale, backbuffer, dimensions, the queue
\* and both flags as they were.  The full-refresh flag has no part in it.
C15_FlipPresentsIffTrue ==
  [][lastOp' = "flip" =>
       /\ lastRet' = (lastBlit' # "none")
       /\ HasFlag(display_flags, DISPLAY_FLAG_WINDOW_RESIZE) =>
            /\ lastRet' = FALSE
            /\ lastBlit' = "none"
       /\ ~HasFlag(display_flags, DISPLAY_FLAG_WINDOW_RESIZE) =>
            /\ lastRet' = TRUE
            /\ m_scale = 1 => lastBlit' = "blit"
            /\ m_scale # 1 => lastBlit' = "stretch_blit"
            /\ UNCHANGED <<m_scale, m_surface, bitmaps, SCREEN_W, SCREEN_H,
                           m_queue, m_events, display_flags>>
    ]_vars

\* A flip() at scale 2 with the full-refresh flag pending has presented with
\* stretch_blit and returned true.
C15_Witness ==
  /\ lastOp = "flip" /\ lastRet /\ lastBlit = "stretch_blit"
  /\ m_scale = 2
  /\ HasFlag(display_flags, DISPLAY_FLAG_FULL_REFRESH)

\* =================================================================== C16
\* C16: between operations a constructed Display owns exactly one live
\* backbuffer, the one m_surface (getSurface) designates, and a live
\* EventQueue; every backbuffer it replaced is gone; once the Display is
\* disposed no backbuffer is left and its EventQueue is deleted.
C16_OneBackbufferOneQueue ==
  LET live == {b \in BitmapIds : bitmaps[b].live}
  IN /\ disp = "live" =>
          /\ m_surface # NULL
          /\ live = {m_surface}
          /\ m_queue = "live"
     /\ disp = "destroyed" =>
          /\ live = {}
          /\ m_queue = "deleted"
     /\ disp = "none" =>
          /\ live = {}
          /\ m_queue = "null"

\* The resize-recovery path of flip() has replaced the backbuffer of a
\* Display whose scale had been changed before: one backbuffer is left.
C16_Witness ==
  /\ disp = "live" /\ lastOp = "flip" /\ ~lastRet /\ lastAlloc
  /\ m_scale = 3
  /\ Cardinality({b \in BitmapIds : bitmaps[b].live}) = 1

\* =================================================================== C17
\* C17: a Display that has just been constructed has neither flag pending
\* and no recorded original dimensions, so that its first flip() returns
\* true and originalWidth() / originalHeight() are its physical dimensions,
\* whatever happened to the Displays before it.
C17_FreshDisplayIsClean ==
  lastOp = "create" =>
    /\ ~HasFlag(display_flags, DISPLAY_FLAG_WINDOW_RESIZE)
    /\ ~HasFlag(display_flags, DISPLAY_FLAG_FULL_REFRESH)
    /\ original_width = 0 /\ original_height = 0
    /\ originalWidth = width /\ originalHeight = height

\* =================================================================== C18
\* C18: unique_display is non-null only while it designates a completely
\* constructed Display that is not being destroyed and whose EventQueue
\* exists, and no file drop is ever delivered to anything else.
C18_BridgeDesignatesLiveDisplay ==
  /\ unique_display # "null" => (disp = "live" /\ m_queue = "live")
  /\ fault = "none"

\* =================================================================== C19
\* C19 (as stated): after set_gfx_mode succeeds the constructor installs
\* the two notification hooks first and calls setScale(scale) after them;
\* a completed Display has a backbuffer, an EventQueue and both hooks.
C19_HooksBeforeSetScale ==
  /\ \A i \in 1..Len(ctorLog) :
       ctorLog[i] = "setScale" =>
         /\ \E j \in 1..(i - 1) : ctorLog[j] = "set_display_switch_callback"
         /\ \E j \in 1..(i - 1) : ctorLog[j] = "set_resize_callback"
  /\ disp = "live" =>
       /\ m_surface # NULL /\ bitmaps[m_surface].live
       /\ m_queue = "live"
       /\ switch_in_cb /\ resize_cb

\* C19 (amended): after set_gfx_mode succeeds the constructor calls
\* setScale(scale), then creates the EventQueue, and only then installs the
\* two notification hooks; a completed Display has a backbuffer, an
\* EventQueue and both hooks.
C19_SetScaleBeforeHooks ==
  /\ \A i \in 1..Len(ctorLog) :
       /\ ctorLog[i] = "setScale" =>
            \E j \in 1..(i - 1) : ctorLog[j] = "set_gfx_mode"
       /\ ctorLog[i] = "new_queue" =>
            \E j \in 1..(i - 1) : ctorLog[j] = "setScale"
       /\ ctorLog[i] \in {"set_display_switch_callback",
                          "set_resize_callback"} =>
            /\ \E j \in 1..(i - 1) : ctorLog[j] = "setScale"
            /\ \E j \in 1..(i - 1) : ctorLog[j] = "new_queue"
  /\ disp = "live" =>
       /\ m_surface # NULL /\ bitmaps[m_surface].live
       /\ m_queue = "live"
       /\ switch_in_cb /\ resize_cb

\* A construction has completed, every statement of the constructor done.
C19_Witness ==
  /\ disp = "live" /\ lpc = "idle"
  /\ ctorLog = <<"install_mouse", "install_keyboard", "set_gfx_mode",
                 "setScale", "new_queue", "set_display_switch_callback",
                 "set_resize_callback", "subclass_hwnd">>

\* =================================================================== C20
\* C20: at most one System is live at a time, Instance() returns that live
\* System, and Instance() never returns a System that was disposed.
C20_Singleton ==
  /\ \A a, b \in SystemIds :
       systems[a] = "live" /\ systems[b] = "live" => a = b
  /\ g_instance # NULL => systems[g_instance] = "live"
  /\ lastOp = "Instance" /\ (\E a \in SystemIds : systems[a] = "live")
       => lastArg # NULL /\ systems[lastArg] = "live"

====
